---- MODULE Spec2Model ----
(***************************************************************************)
(* Model of the personality engine (sage/ui/personality.py,                *)
(* PersonalitySystem) and of the video timer loop that drives it           *)
(* (sage/ui/web_server.py, SageWebServer).                                 *)
(*                                                                         *)
(* The engine's fields are the variables.  Every method of the engine is   *)
(* an operator from an engine record (and the wall-clock reading) to the   *)
(* set of outcomes [eng, ret] it can produce; the set has more than one    *)
(* member only where the method draws a random video.  An action applies   *)
(* one method, or one iteration of the timer loop, as a whole.             *)
(***************************************************************************)
EXTENDS Integers, Sequences, FiniteSets, TLC

VARIABLES
    expressions,               \* self.expressions: label -> list of VideoInfo
    idle_videos,               \* self.idle_videos
    fallback_emotions,         \* self.fallback_emotions
    context_mapping,           \* self.context_mapping
    current_state,             \* self.current_state
    current_video_start_time,  \* self.current_video_start_time
    current_video_duration,    \* self.current_video_duration
    task_queue,                \* self.task_queue
    is_sleeping,               \* self.is_sleeping
    sleep_pending,             \* self.sleep_pending
    video_timer_task,          \* SageWebServer.video_timer_task
    last_video_path,           \* local of video_timer_loop
    now,                       \* the reading of time.time()
    lastOp,                    \* history: the operation of the last step
    ret,                       \* history: what that operation returned
    broadcast,                 \* history: what that step sent to the sink
    prev                       \* history: the engine before that step

\* what _load_expressions sets and no method changes afterwards
config_vars == <<expressions, idle_videos, fallback_emotions, context_mapping>>

vars == <<config_vars, current_state, current_video_start_time,
          current_video_duration, task_queue, is_sleeping, sleep_pending,
          video_timer_task, last_video_path, now, lastOp, ret, broadcast, prev>>

(***************************************************************************)
(* Bounds of the model.                                                    *)
(***************************************************************************)
MaxTime == 3
MaxQueue == 2
MaxLen == 3      \* videos in a list given to the selection on its own
MaxWeight == 2   \* the largest weight of such a video

(***************************************************************************)
(* Python's None for the two timing fields and for an absent duration.     *)
(* Clock readings and durations are >= 0, so -1 is free.                   *)
(***************************************************************************)
None == -1

\* None where a string is expected: dict.get('video') of a response without
\* the key, the initial last_video_path, an operation without a label.
NoneStr == "None"

VideoInfo(location, duration, weight) ==
    [location |-> location, duration |-> duration, weight |-> weight]

(***************************************************************************)
(* The configurations the engine is constructed from.  LoadedConfig is a   *)
(* file of the shape _load_expressions reads: emotions, among them sleep   *)
(* and wake, and idle videos.  FallbackConfig is what _load_expressions    *)
(* leaves behind when reading the file fails: one neutral expression, no   *)
(* idle videos, and the fallback emotions and context mapping __init__     *)
(* had set.  A context mapping takes a signal key and a signal value to    *)
(* the list of candidate labels.                                           *)
(***************************************************************************)
NoMapping == [key \in {} |-> <<>>]

LoadedConfig ==
    [expressions |->
        [l \in {"neutral", "joyful", "serious", "sleep", "wake"} |->
            CASE l = "neutral" -> <<VideoInfo("neutral-1", 1, 10)>>
              [] l = "joyful"  -> <<VideoInfo("joyful-1", 2, 1),
                                    VideoInfo("joyful-2", 1, 2)>>
              [] l = "serious" -> <<VideoInfo("serious-1", 2, 10)>>
              [] l = "sleep"   -> <<VideoInfo("sleep-1", 1, 10)>>
              [] l = "wake"    -> <<VideoInfo("wake-1", 1, 10)>>],
     idle_videos |-> <<VideoInfo("idle-1", 2, 2), VideoInfo("idle-2", 1, 1)>>,
     fallback_emotions |-> <<"neutral", "joyful">>,
     context_mapping |->
        [key \in {"error_severity", "interaction_type",
                   "user_relationship"} |->
            CASE key = "error_severity" ->
                     [value \in {"high"} |-> <<"serious">>]
              [] key = "interaction_type" ->
                     [value \in {"greeting"} |-> <<"joyful", "hopeful">>]
              [] key = "user_relationship" ->
                     [value \in {"new"} |-> <<"hopeful">>]]]

FallbackConfig ==
    [expressions |->
        [l \in {"neutral"} |-> <<VideoInfo("sage-idle-blink-1", 10, 10)>>],
     idle_videos |-> <<>>,
     fallback_emotions |-> <<"neutral", "hopeful">>,
     context_mapping |-> NoMapping]

Configs == {LoadedConfig, FallbackConfig}

\* The labels callers pass to the engine; "thinking" is the default of the
\* start-task route and names no expression of either configuration.
Labels == {"joyful", "serious", "thinking"}

(***************************************************************************)
(* Responses.  A response is the dict a method returns, reduced to the     *)
(* keys the timer loop and the routes read.  NoneResponse is Python's      *)
(* None.                                                                   *)
(***************************************************************************)
NoneResponse ==
    [type |-> NoneStr, emotion |-> NoneStr, video |-> NoneStr, duration |-> None]

Response(type, emotion) ==
    [type |-> type, emotion |-> emotion, video |-> NoneStr, duration |-> None]

WithVideo(response, video) ==
    [response EXCEPT !.video = video.location, !.duration = video.duration]

(***************************************************************************)
(* The engine as a record of its mutable fields.                           *)
(***************************************************************************)
Eng ==
    [current_state            |-> current_state,
     current_video_start_time |-> current_video_start_time,
     current_video_duration   |-> current_video_duration,
     task_queue               |-> task_queue,
     is_sleeping              |-> is_sleeping,
     sleep_pending            |-> sleep_pending]

Outcome(e, r) == [eng |-> e, ret |-> r]

\* PersonalitySystem.__init__
InitEng ==
    [current_state            |-> "idle",
     current_video_start_time |-> None,
     current_video_duration   |-> None,
     task_queue               |-> <<>>,
     is_sleeping              |-> FALSE,
     sleep_pending            |-> FALSE]

(***************************************************************************)
(* Weighted selection.                                                     *)
(***************************************************************************)
\* None as returned by _weighted_random_selection for an empty list
NoVideo == VideoInfo(NoneStr, None, 0)

RECURSIVE cumulative_weight(_, _)
\* the value of cumulative_weight after the first i videos of the loop
cumulative_weight(videos, i) ==
    IF i = 0 THEN 0 ELSE cumulative_weight(videos, i - 1) + videos[i].weight

total_weight(videos) == cumulative_weight(videos, Len(videos))

\* the loop as it would be with "random_value < cumulative_weight"
weighted_walk_strict(videos, random_value) ==
    LET reached == {i \in 1..Len(videos) :
                        random_value < cumulative_weight(videos, i)}
    IN  IF reached = {}
        THEN videos[Len(videos)]
        ELSE videos[CHOOSE i \in reached : \A j \in reached : i <= j]

\* the loop of _weighted_random_selection for the draw random_value: the
\* first video whose cumulative weight reaches the draw, else the last one
weighted_walk(videos, random_value) ==
    LET reached == {i \in 1..Len(videos) :
                        random_value <= cumulative_weight(videos, i)}
    IN  IF reached = {}
        THEN videos[Len(videos)]
        ELSE videos[CHOOSE i \in reached : \A j \in reached : i <= j]

\* random.choice(videos) as it would be if it took the head of the list
uniform_choice_first(videos) == {videos[1]}

\* random.choice(videos): every member of the list
uniform_choice(videos) == {videos[i] : i \in 1..Len(videos)}

\* every video _weighted_random_selection can return for the list
weighted_random_selection(videos) ==
    IF videos = <<>>
    THEN {NoVideo}
    ELSE IF total_weight(videos) <= 0
         THEN uniform_choice(videos)
         ELSE {weighted_walk(videos, random_value) :
                   random_value \in 1..total_weight(videos)}

(***************************************************************************)
(* The engine's methods.  e is the engine before the call, t the reading   *)
(* of time.time() during it.                                               *)
(***************************************************************************)
\* should_change_video as it would be with ">" for ">="
should_change_video_late(e, t) ==
    IF e.current_video_start_time = None \/ e.current_video_duration = None
    THEN TRUE
    ELSE t - e.current_video_start_time > e.current_video_duration

should_change_video(e, t) ==
    IF e.current_video_start_time = None \/ e.current_video_duration = None
    THEN TRUE
    ELSE t - e.current_video_start_time >= e.current_video_duration

\* self.default_emotion
default_emotion == "neutral"

\* the videos of get_expression_data(emotion), <<>> standing for both a
\* missing expression and an expression without videos: neither selects
expression_videos(emotion) ==
    IF emotion \in DOMAIN expressions THEN expressions[emotion] ELSE <<>>

\* validate_expressions_config()['valid']: every fallback emotion and the
\* default emotion have an expression.  Videos missing on disk are warnings
\* and leave it True; the length of an expression's video list is not looked
\* at
validate_expressions_config ==
    /\ \A i \in 1..Len(fallback_emotions) :
           fallback_emotions[i] \in DOMAIN expressions
    /\ default_emotion \in DOMAIN expressions

StartTiming(e, t, video) ==
    [e EXCEPT !.current_video_start_time = t,
              !.current_video_duration = video.duration]

create_personality_response(e, t, emotion) ==
    {IF selected_video = NoVideo
     THEN Outcome(e, Response("system_notification", emotion))
     ELSE Outcome(StartTiming([e EXCEPT !.current_state = "emotion"],
                              t, selected_video),
                  WithVideo(Response("system_notification", emotion),
                            selected_video)) :
        selected_video \in weighted_random_selection(expression_videos(emotion))}

\* create_idle_response as it would be if it selected no idle video
create_idle_response_without_video(e, t) ==
    {Outcome(e, Response("idle", "idle"))}

create_idle_response(e, t) ==
    {IF idle_video = NoVideo
     THEN Outcome(e, Response("idle", "idle"))
     ELSE Outcome(StartTiming([e EXCEPT !.current_state = "idle"],
                              t, idle_video),
                  WithVideo(Response("idle", "idle"), idle_video)) :
        idle_video \in weighted_random_selection(idle_videos)}

create_task_emotion_response(e, t, emotion) ==
    {IF selected_video = NoVideo
     THEN Outcome(e, Response("task_emotion", emotion))
     ELSE Outcome(StartTiming([e EXCEPT !.current_state = "task"],
                              t, selected_video),
                  WithVideo(Response("task_emotion", emotion),
                            selected_video)) :
        selected_video \in weighted_random_selection(expression_videos(emotion))}

\* start_task as it would be if it cleared the timing of the clip in flight
start_task_clears_timing(e, emotion) ==
    [e EXCEPT !.current_state = "task",
              !.task_queue = Append(e.task_queue, emotion),
              !.current_video_start_time = None,
              !.current_video_duration = None]

start_task(e, emotion) ==
    [e EXCEPT !.current_state = "task",
              !.task_queue = Append(e.task_queue, emotion)]

\* add_task_emotion as it would be without the test of current_state
add_task_emotion_unguarded(e, emotion) ==
    [e EXCEPT !.task_queue = Append(e.task_queue, emotion)]

add_task_emotion(e, emotion) ==
    IF e.current_state = "task"
    THEN [e EXCEPT !.task_queue = Append(e.task_queue, emotion)]
    ELSE e

\* complete_task as it would be without the reset of the timing fields
complete_task_keeps_timing(e) ==
    [e EXCEPT !.current_state = "idle",
              !.task_queue = <<>>]

complete_task(e) ==
    [e EXCEPT !.current_state = "idle",
              !.task_queue = <<>>,
              !.current_video_start_time = None,
              !.current_video_duration = None]

\* sleep_deferred as it would be if only one-shot emotions were protected
sleep_deferred_emotion_only(e, t) ==
    e.current_state \in {"emotion"} /\ ~should_change_video(e, t)

\* sleep_deferred as it would be without the test of the clip's expiry
sleep_deferred_ignores_expiry(e, t) ==
    e.current_state \in {"emotion", "task"}

\* go_to_sleep's test for "currently playing a video"
sleep_deferred(e, t) ==
    e.current_state \in {"emotion", "task"} /\ ~should_change_video(e, t)

\* fall_asleep as it would be without the reset of sleep_pending
fall_asleep_keeps_pending(e) ==
    [e EXCEPT !.is_sleeping = TRUE,
              !.current_state = "sleep"]

\* the three assignments of go_to_sleep's immediate branch
fall_asleep(e) ==
    [e EXCEPT !.is_sleeping = TRUE,
              !.sleep_pending = FALSE,
              !.current_state = "sleep"]

\* go_to_sleep's early return as it would be if it put the engine to sleep
\* once more
already_sleeping_again(e) ==
    {Outcome([e EXCEPT !.is_sleeping = TRUE,
                       !.sleep_pending = FALSE,
                       !.current_state = "sleep"],
             Response("sleep", "sleep"))}

\* go_to_sleep's early return on an engine that sleeps already
already_sleeping(e) == {Outcome(e, NoneResponse)}

go_to_sleep(e, t) ==
    IF e.is_sleeping
    THEN already_sleeping(e)
    ELSE IF sleep_deferred(e, t)
         THEN {Outcome([e EXCEPT !.sleep_pending = TRUE], NoneResponse)}
         ELSE LET asleep == fall_asleep(e)
              IN  {IF selected_video = NoVideo
                   THEN Outcome(asleep, Response("sleep", "sleep"))
                   ELSE Outcome(StartTiming(asleep, t, selected_video),
                                WithVideo(Response("sleep", "sleep"),
                                          selected_video)) :
                      selected_video \in
                          weighted_random_selection(expression_videos("sleep"))}

\* awaken as it would be without the assignment of current_state
awaken_keeps_mode(e) ==
    [e EXCEPT !.is_sleeping = FALSE,
              !.sleep_pending = FALSE]

\* awaken as it would be if waking led straight back to idle
awaken_as_idle(e) ==
    [e EXCEPT !.is_sleeping = FALSE,
              !.sleep_pending = FALSE,
              !.current_state = "idle"]

\* the three assignments of wake_up once the engine is known to sleep
awaken(e) ==
    [e EXCEPT !.is_sleeping = FALSE,
              !.sleep_pending = FALSE,
              !.current_state = "emotion"]

\* wake_up's early return as it would be if it also withdrew a pending sleep
not_sleeping_cancels_pending(e) ==
    {Outcome([e EXCEPT !.sleep_pending = FALSE], NoneResponse)}

\* wake_up's early return on an engine that does not sleep
not_sleeping(e) == {Outcome(e, NoneResponse)}

wake_up(e, t) ==
    IF ~e.is_sleeping
    THEN not_sleeping(e)
    ELSE LET awake == awaken(e)
         IN  {IF selected_video = NoVideo
              THEN Outcome(awake, Response("wake", "wake"))
              ELSE Outcome(StartTiming(awake, t, selected_video),
                           WithVideo(Response("wake", "wake"),
                                     selected_video)) :
                 selected_video \in
                     weighted_random_selection(expression_videos("wake"))}

\* sleep_due as it would be if get_next_video forgot the pending sleep
sleep_due_never(e, t) == FALSE

\* sleep_due as it would be with the expiry test inverted
sleep_due_inverted(e, t) == e.sleep_pending /\ ~should_change_video(e, t)

\* get_next_video's test for a pending sleep that is due
sleep_due(e, t) == e.sleep_pending /\ should_change_video(e, t)

\* pop_task_queue as it would be with pop() for pop(0)
pop_task_queue_last(queue) ==
    [emotion |-> queue[Len(queue)], rest |-> SubSeq(queue, 1, Len(queue) - 1)]

\* task_queue.pop(0): the emotion taken and the queue left
pop_task_queue(queue) == [emotion |-> Head(queue), rest |-> Tail(queue)]

\* stay_sleeping as it would be if sleep did not hold the engine
stay_sleeping_never(e) == FALSE

\* get_next_video's test "if sleeping, stay sleeping"
stay_sleeping(e) == e.current_state = "sleep" \/ e.is_sleeping

get_next_video(e, t) ==
    IF sleep_due(e, t)
    THEN go_to_sleep(e, t)
    ELSE IF stay_sleeping(e)
    THEN {Outcome(e, NoneResponse)}
    ELSE IF e.current_state = "idle"
    THEN create_idle_response(e, t)
    ELSE IF e.current_state = "task" /\ e.task_queue # <<>>
    THEN create_task_emotion_response(
             [e EXCEPT !.task_queue = pop_task_queue(e.task_queue).rest],
             t, pop_task_queue(e.task_queue).emotion)
    ELSE IF e.current_state = "task" /\ e.task_queue = <<>>
    THEN create_idle_response(complete_task(e), t)
    ELSE IF e.current_state = "emotion"
    THEN create_idle_response(
             [e EXCEPT !.current_state = "idle",
                       !.current_video_start_time = None,
                       !.current_video_duration = None], t)
    ELSE create_idle_response([e EXCEPT !.current_state = "idle"], t)

(***************************************************************************)
(* Actions.                                                                *)
(***************************************************************************)
Op(op, emotion) == [op |-> op, emotion |-> emotion]

NoBroadcast == [type |-> NoneStr, data |-> NoneResponse]

Broadcast(type, data) == [type |-> type, data |-> data]

SetEng(e) ==
    /\ current_state' = e.current_state
    /\ current_video_start_time' = e.current_video_start_time
    /\ current_video_duration' = e.current_video_duration
    /\ task_queue' = e.task_queue
    /\ is_sleeping' = e.is_sleeping
    /\ sleep_pending' = e.sleep_pending

\* what every step records of itself
Record(op, r, b) ==
    /\ lastOp' = op
    /\ ret' = r
    /\ broadcast' = b
    /\ prev' = Eng

Init ==
    /\ \E config \in Configs :
          /\ expressions = config.expressions
          /\ idle_videos = config.idle_videos
          /\ fallback_emotions = config.fallback_emotions
          /\ context_mapping = config.context_mapping
    /\ current_state = InitEng.current_state
    /\ current_video_start_time = InitEng.current_video_start_time
    /\ current_video_duration = InitEng.current_video_duration
    /\ task_queue = InitEng.task_queue
    /\ is_sleeping = InitEng.is_sleeping
    /\ sleep_pending = InitEng.sleep_pending
    /\ video_timer_task = NoneStr
    /\ last_video_path = NoneStr
    /\ now = 0
    /\ lastOp = Op("init", NoneStr)
    /\ ret = NoneResponse
    /\ broadcast = NoBroadcast
    /\ prev = InitEng

\* the server is constructed and serves its routes
Running == video_timer_task # NoneStr

\* what the server's sink does with one message: it is sent; a connection
\* fails and ConnectionManager.broadcast logs and drops it; or an exception
\* leaves broadcast and reaches the caller
PublishOutcomes == {"sent", "dropped", "raised"}

\* video_timer_loop's except branch as it would be without the try
loop_after_exception_exits(task) == "done"

\* video_timer_loop's except branch: log, sleep, go round the loop again
loop_after_exception(task) == task

\* SageWebServer.start_video_timer, run by the server's constructor, and the
\* startup event that creates the timer task
StartVideoTimer ==
    /\ video_timer_task = NoneStr
    /\ \E o \in create_idle_response(Eng, now) :
          /\ SetEng(o.eng)
          /\ Record(Op("start_video_timer", NoneStr), o.ret, NoBroadcast)
    /\ video_timer_task' = "running"
    /\ UNCHANGED <<config_vars, last_video_path, now>>

\* time.time() moves on
AdvanceTime ==
    /\ now < MaxTime
    /\ now' = now + 1
    /\ Record(Op("advance_time", NoneStr), NoneResponse, NoBroadcast)
    /\ UNCHANGED <<config_vars, current_state,
                   current_video_start_time, current_video_duration,
                   task_queue, is_sleeping, sleep_pending,
                   video_timer_task, last_video_path>>

\* the start-task route
StartTask(emotion) ==
    /\ Running
    /\ Len(task_queue) < MaxQueue
    /\ SetEng(start_task(Eng, emotion))
    /\ Record(Op("start_task", emotion), NoneResponse, NoBroadcast)
    /\ UNCHANGED <<config_vars, video_timer_task,
                   last_video_path, now>>

\* the add-task-emotion route
AddTaskEmotion(emotion) ==
    /\ Running
    /\ current_state = "task" => Len(task_queue) < MaxQueue
    /\ SetEng(add_task_emotion(Eng, emotion))
    /\ Record(Op("add_task_emotion", emotion), NoneResponse, NoBroadcast)
    /\ UNCHANGED <<config_vars, video_timer_task,
                   last_video_path, now>>

\* the complete-task route
CompleteTask ==
    /\ Running
    /\ SetEng(complete_task(Eng))
    /\ Record(Op("complete_task", NoneStr), NoneResponse, NoBroadcast)
    /\ UNCHANGED <<config_vars, video_timer_task,
                   last_video_path, now>>

\* SageWebServer.send_system_notification with the resolved emotion
SendSystemNotification(emotion) ==
    /\ Running
    /\ \E o \in create_personality_response(Eng, now, emotion) :
          /\ SetEng(o.eng)
          /\ Record(Op("create_personality_response", emotion), o.ret,
                    Broadcast("notification", o.ret))
    /\ UNCHANGED <<config_vars, video_timer_task,
                   last_video_path, now>>

\* the sleep route
GoToSleep ==
    /\ Running
    /\ \E o \in go_to_sleep(Eng, now) :
          /\ SetEng(o.eng)
          /\ Record(Op("go_to_sleep", NoneStr), o.ret,
                    IF o.ret # NoneResponse
                    THEN Broadcast("video_change", o.ret)
                    ELSE NoBroadcast)
    /\ UNCHANGED <<config_vars, video_timer_task,
                   last_video_path, now>>

\* the wake route
WakeUp ==
    /\ Running
    /\ \E o \in wake_up(Eng, now) :
          /\ SetEng(o.eng)
          /\ Record(Op("wake_up", NoneStr), o.ret,
                    IF o.ret # NoneResponse
                    THEN Broadcast("video_change", o.ret)
                    ELSE NoBroadcast)
    /\ UNCHANGED <<config_vars, video_timer_task,
                   last_video_path, now>>

\* one iteration of SageWebServer.video_timer_loop
VideoTimerLoop ==
    /\ video_timer_task = "running"
    /\ IF should_change_video(Eng, now)
       THEN \E o \in get_next_video(Eng, now) :
               /\ SetEng(o.eng)
               /\ IF o.ret # NoneResponse /\ o.ret.video # last_video_path
                  THEN \E outcome \in PublishOutcomes :
                          IF outcome = "raised"
                          THEN /\ Record(Op("video_timer_loop", NoneStr), o.ret,
                                         Broadcast("raised", o.ret))
                               /\ UNCHANGED last_video_path
                               /\ video_timer_task' =
                                      loop_after_exception(video_timer_task)
                          ELSE /\ Record(Op("video_timer_loop", NoneStr), o.ret,
                                         Broadcast(IF outcome = "sent"
                                                   THEN "video_change"
                                                   ELSE "dropped", o.ret))
                               /\ last_video_path' = o.ret.video
                               /\ UNCHANGED video_timer_task
                  ELSE /\ Record(Op("video_timer_loop", NoneStr), o.ret,
                                 NoBroadcast)
                       /\ UNCHANGED <<last_video_path, video_timer_task>>
       ELSE /\ SetEng(Eng)
            /\ Record(Op("video_timer_loop", NoneStr), NoneResponse,
                      NoBroadcast)
            /\ UNCHANGED <<last_video_path, video_timer_task>>
    /\ UNCHANGED <<config_vars, now>>

Next ==
    \/ StartVideoTimer
    \/ AdvanceTime
    \/ \E emotion \in Labels : StartTask(emotion)
    \/ \E emotion \in Labels : AddTaskEmotion(emotion)
    \/ CompleteTask
    \/ \E emotion \in Labels : SendSystemNotification(emotion)
    \/ GoToSleep
    \/ WakeUp
    \/ VideoTimerLoop

Spec == Init /\ [][Next]_vars

(***************************************************************************)
(* The engine under a scheduler that keeps ticking while time goes on      *)
(* without end.  The engine reads the clock only in the difference         *)
(* time.time() - current_video_start_time, so once the reading has reached *)
(* MaxTime a further unit of time is a step back of the start time.  A     *)
(* start time of 0 stays: at the reading MaxTime such a video is over,     *)
(* every timed video of the configurations being shorter than MaxTime.     *)
(***************************************************************************)
TimeGoesOn ==
    /\ now = MaxTime
    /\ current_video_start_time' =
           IF current_video_start_time > 0
           THEN current_video_start_time - 1
           ELSE current_video_start_time
    /\ Record(Op("advance_time", NoneStr), NoneResponse, NoBroadcast)
    /\ UNCHANGED <<config_vars, current_state, current_video_duration,
                   task_queue, is_sleeping, sleep_pending,
                   video_timer_task, last_video_path, now>>

\* the labels of the requests: one with an expression, whose videos have
\* both durations, and one without
LiveLabels == {"joyful", "thinking"}

LiveNext ==
    \/ StartVideoTimer
    \/ AdvanceTime
    \/ TimeGoesOn
    \/ \E emotion \in LiveLabels : StartTask(emotion)
    \/ \E emotion \in LiveLabels : AddTaskEmotion(emotion)
    \/ CompleteTask
    \/ \E emotion \in LiveLabels : SendSystemNotification(emotion)
    \/ GoToSleep
    \/ WakeUp
    \/ VideoTimerLoop

\* video_timer_loop is a "while True" around a sleep of a tenth of a second,
\* and the clock does not stop
LiveSpec ==
    /\ Init
    /\ [][LiveNext]_vars
    /\ WF_vars(VideoTimerLoop)
    /\ WF_vars(AdvanceTime \/ TimeGoesOn)

(***************************************************************************)
(* The weighted selection on its own.  The idle list is any list a file    *)
(* can hold, of up to MaxLen videos with weights from -1 to MaxWeight      *)
(* (weight is an int, of any sign); the one operation is                   *)
(* get_random_idle_video, which hands the list to the selection.           *)
(***************************************************************************)
Weights == -1..MaxWeight

\* the list of videos with the given weights, the i-th at location "i"
Videos(weights) ==
    [i \in 1..Len(weights) |-> VideoInfo(ToString(i), 1, weights[i])]

VideoLists == {Videos(weights) :
                  weights \in UNION {[1..n -> Weights] : n \in 0..MaxLen}}

get_random_idle_video ==
    IF idle_videos # <<>>
    THEN weighted_random_selection(idle_videos)
    ELSE {NoVideo}

SelectInit ==
    /\ idle_videos \in VideoLists
    /\ expressions = FallbackConfig.expressions
    /\ fallback_emotions = FallbackConfig.fallback_emotions
    /\ context_mapping = FallbackConfig.context_mapping
    /\ current_state = InitEng.current_state
    /\ current_video_start_time = InitEng.current_video_start_time
    /\ current_video_duration = InitEng.current_video_duration
    /\ task_queue = InitEng.task_queue
    /\ is_sleeping = InitEng.is_sleeping
    /\ sleep_pending = InitEng.sleep_pending
    /\ video_timer_task = NoneStr
    /\ last_video_path = NoneStr
    /\ now = 0
    /\ lastOp = Op("init", NoneStr)
    /\ ret = NoVideo
    /\ broadcast = NoBroadcast
    /\ prev = InitEng

GetRandomIdleVideo ==
    /\ \E video \in get_random_idle_video : ret' = video
    /\ lastOp' = Op("get_random_idle_video", NoneStr)
    /\ UNCHANGED <<config_vars, current_state, current_video_start_time,
                   current_video_duration, task_queue, is_sleeping,
                   sleep_pending, video_timer_task, last_video_path, now,
                   broadcast, prev>>

SelectNext == GetRandomIdleVideo

SelectSpec == SelectInit /\ [][SelectNext]_vars

(***************************************************************************)
(* The rule-based resolver on its own.  The catalog is any set of the      *)
(* labels of CatalogLabels, the fallback list one of FallbackLists, the    *)
(* context mapping the loaded one or none; the one operation is            *)
(* _determine_emotion_by_rules, called with any context of Contexts.  A    *)
(* context gives each signal key a value, NoneStr where the dict has no    *)
(* such key.                                                               *)
(***************************************************************************)
CatalogLabels == {"neutral", "joyful", "serious"}

Catalogs ==
    {[l \in labels |-> <<VideoInfo(l, 1, 10)>>] : labels \in SUBSET CatalogLabels}

FallbackLists ==
    {<<>>, <<"hopeful">>, <<"neutral", "hopeful">>, <<"joyful", "serious">>}

ContextMappings == {NoMapping, LoadedConfig.context_mapping}

Contexts ==
    [error_severity : {NoneStr, "high", "low"},
     interaction_type : {NoneStr, "greeting", "status_update"},
     user_relationship : {NoneStr, "new"}]

\* what one signal key adds to candidates
signal_candidates(context, key) ==
    IF key \in DOMAIN context_mapping
    THEN IF context[key] \in DOMAIN context_mapping[key]
         THEN context_mapping[key][context[key]]
         ELSE <<>>
    ELSE <<>>

\* the filter as it would be if it let every label through
available_unfiltered(labels) == labels

\* [c for c in labels if c in self.expressions]
available(labels) == SelectSeq(labels, LAMBDA c : c \in DOMAIN expressions)

determine_emotion_by_rules(context) ==
    LET candidates == signal_candidates(context, "error_severity")
                      \o signal_candidates(context, "interaction_type")
                      \o signal_candidates(context, "user_relationship")
        valid_candidates == available(candidates)
        valid_fallbacks == available(fallback_emotions)
    IN  IF valid_candidates # <<>>
        THEN uniform_choice(valid_candidates)
        ELSE IF valid_fallbacks # <<>>
             THEN uniform_choice(valid_fallbacks)
             ELSE {default_emotion}

ResolveInit ==
    /\ expressions \in Catalogs
    /\ fallback_emotions \in FallbackLists
    /\ context_mapping \in ContextMappings
    /\ idle_videos = <<>>
    /\ current_state = InitEng.current_state
    /\ current_video_start_time = InitEng.current_video_start_time
    /\ current_video_duration = InitEng.current_video_duration
    /\ task_queue = InitEng.task_queue
    /\ is_sleeping = InitEng.is_sleeping
    /\ sleep_pending = InitEng.sleep_pending
    /\ video_timer_task = NoneStr
    /\ last_video_path = NoneStr
    /\ now = 0
    /\ lastOp = [op |-> "init", context |-> [key \in {} |-> NoneStr]]
    /\ ret = NoneStr
    /\ broadcast = NoBroadcast
    /\ prev = InitEng

DetermineEmotionByRules(context) ==
    /\ \E emotion \in determine_emotion_by_rules(context) : ret' = emotion
    /\ lastOp' = [op |-> "determine_emotion_by_rules", context |-> context]
    /\ UNCHANGED <<config_vars, current_state, current_video_start_time,
                   current_video_duration, task_queue, is_sleeping,
                   sleep_pending, video_timer_task, last_video_path, now,
                   broadcast, prev>>

ResolveNext == \E context \in Contexts : DetermineEmotionByRules(context)

ResolveSpec == ResolveInit /\ [][ResolveNext]_vars

(***************************************************************************)
(* Vocabulary of the properties.                                           *)
(***************************************************************************)
Locations(videos) == {videos[i].location : i \in 1..Len(videos)}

\* the last step was a timer iteration that called get_next_video
NextClipCalled ==
    lastOp.op = "video_timer_loop" /\ should_change_video(prev, now)

\* the timing fields of the last step's engine are those before it
TimingUnchanged ==
    /\ current_video_start_time = prev.current_video_start_time
    /\ current_video_duration = prev.current_video_duration

\* the last step started timing on the video it returned
TimingStarted ==
    /\ current_video_start_time = now
    /\ current_video_duration = ret.duration

(***************************************************************************)
(* C1: in every reachable state, is_sleeping implies that current_state is *)
(* "sleep".  Stated as claimed; start_task, complete_task and              *)
(* create_personality_response assign current_state while is_sleeping      *)
(* stays TRUE.                                                             *)
(***************************************************************************)
C1_SleepingImpliesSleepMode ==
    is_sleeping => current_state = "sleep"

(***************************************************************************)
(* C2: in every reachable state, sleep_pending and is_sleeping are never   *)
(* both TRUE.                                                              *)
(***************************************************************************)
C2_PendingExcludesSleeping ==
    ~(sleep_pending /\ is_sleeping)

\* a pending sleep has just been honoured by get_next_video
C2_Witness ==
    /\ NextClipCalled
    /\ prev.sleep_pending
    /\ is_sleeping
    /\ ~sleep_pending

(***************************************************************************)
(* C3: while the engine sleeps, no step other than wake_up changes the     *)
(* timing of the active clip or returns a clip.  Stated as claimed;        *)
(* create_personality_response starts a new clip and complete_task clears  *)
(* the timing while is_sleeping is TRUE.                                   *)
(***************************************************************************)
C3_NoClipChangeWhileSleeping ==
    (prev.is_sleeping /\ lastOp.op # "wake_up")
        => /\ TimingUnchanged
           /\ ret.video = NoneStr

(***************************************************************************)
(* C4.  The effect the claim gives to go_to_sleep when it defers.          *)
(***************************************************************************)
Deferred ==
    /\ ret = NoneResponse
    /\ sleep_pending
    /\ ~is_sleeping
    /\ current_state = prev.current_state
    /\ task_queue = prev.task_queue
    /\ TimingUnchanged

\* go_to_sleep was called on an engine that was awake with a clip in flight
SleepRequestedInFlight ==
    /\ lastOp.op = "go_to_sleep"
    /\ ~prev.is_sleeping
    /\ ~should_change_video(prev, now)

C5_PendingSleepHonoured ==
    (NextClipCalled /\ prev.sleep_pending)
        => /\ is_sleeping
           /\ ~sleep_pending
           /\ current_state = "sleep"
           /\ ret.type = "sleep"
           /\ expression_videos("sleep") # <<>>
                  => /\ ret.video \in Locations(expression_videos("sleep"))
                     /\ TimingStarted

\* a pending sleep was honoured in the middle of a task with labels queued
C5_Witness ==
    /\ NextClipCalled
    /\ prev.sleep_pending
    /\ prev.current_state = "task"
    /\ prev.task_queue # <<>>
    /\ is_sleeping
    /\ ret.video = "sleep-1"

(***************************************************************************)
(* C6: after start_task(L) the mode is task and the queue is exactly <<L>>.*)
(* Stated as claimed; start_task appends L to whatever is queued.          *)
(***************************************************************************)
C6_StartTaskResetsQueue ==
    lastOp.op = "start_task"
        => /\ current_state = "task"
           /\ task_queue = <<lastOp.emotion>>

(***************************************************************************)
(* C7: after start_task(L), L an expression of the configuration, on an    *)
(* engine that neither sleeps nor has a sleep pending, should_change_video *)
(* is true at once and get_next_video, called now, returns a video of L    *)
(* and leaves the mode task.  Stated as claimed; start_task leaves the     *)
(* timing fields alone.                                                    *)
(***************************************************************************)
C7_StartTaskDispatchesAtOnce ==
    (/\ lastOp.op = "start_task"
     /\ lastOp.emotion \in DOMAIN expressions
     /\ ~prev.is_sleeping
     /\ ~prev.sleep_pending)
        => /\ should_change_video(Eng, now)
           /\ \A o \in get_next_video(Eng, now) :
                 /\ o.eng.current_state = "task"
                 /\ o.ret.video \in Locations(expression_videos(lastOp.emotion))

(***************************************************************************)
(* C8: a call of get_next_video in mode task, on an engine that neither    *)
(* sleeps nor has a sleep pending, takes the label at the head of the      *)
(* queue, keeps the mode and returns a video of that label's expression;   *)
(* when the queue is empty it returns an idle video and leaves the mode    *)
(* idle and the queue empty.  Step by step this is the sequence a, b, idle *)
(* for a queue <<a, b>>.                                                   *)
(***************************************************************************)
C8_TaskQueueFifo ==
    (/\ NextClipCalled
     /\ prev.current_state = "task"
     /\ ~prev.is_sleeping
     /\ ~prev.sleep_pending)
        => IF prev.task_queue # <<>>
           THEN /\ task_queue = Tail(prev.task_queue)
                /\ current_state = "task"
                /\ ret.type = "task_emotion"
                /\ ret.emotion = Head(prev.task_queue)
                /\ expression_videos(Head(prev.task_queue)) # <<>>
                       => /\ ret.video \in Locations(
                                 expression_videos(Head(prev.task_queue)))
                          /\ TimingStarted
           ELSE /\ task_queue = <<>>
                /\ current_state = "idle"
                /\ ret.type = "idle"
                /\ idle_videos # <<>>
                       => /\ ret.video \in Locations(idle_videos)
                          /\ TimingStarted

\* of a queue of two different labels the first has just been played
C8_Witness ==
    /\ NextClipCalled
    /\ prev.current_state = "task"
    /\ prev.task_queue = <<"joyful", "serious">>
    /\ ret.video \in {"joyful-1", "joyful-2"}
    /\ task_queue = <<"serious">>

(***************************************************************************)
(* C9: add_task_emotion(L) leaves the engine as it was unless the mode is  *)
(* task; in mode task it appends L at the tail of the queue and changes    *)
(* nothing else.                                                           *)
(***************************************************************************)
C9_AddTaskEmotionFrame ==
    lastOp.op = "add_task_emotion"
        => /\ IF prev.current_state = "task"
              THEN task_queue = prev.task_queue \o <<lastOp.emotion>>
              ELSE task_queue = prev.task_queue
           /\ current_state = prev.current_state
           /\ TimingUnchanged
           /\ is_sleeping = prev.is_sleeping
           /\ sleep_pending = prev.sleep_pending

\* a second label has just been queued behind a different one
C9_Witness ==
    /\ lastOp = Op("add_task_emotion", "serious")
    /\ prev.current_state = "task"
    /\ prev.task_queue = <<"joyful">>
    /\ task_queue = <<"joyful", "serious">>

(***************************************************************************)
(* C10: complete_task leaves the mode idle, the queue empty and the timing *)
(* cleared, and a second complete_task would change nothing.               *)
(***************************************************************************)
C10_CompleteTaskIdempotent ==
    lastOp.op = "complete_task"
        => /\ current_state = "idle"
           /\ task_queue = <<>>
           /\ current_video_start_time = None
           /\ current_video_duration = None
           /\ is_sleeping = prev.is_sleeping
           /\ sleep_pending = prev.sleep_pending
           /\ complete_task(Eng) = Eng

\* a task with a label queued and a clip playing has just been completed
C10_Witness ==
    /\ lastOp.op = "complete_task"
    /\ prev.current_state = "task"
    /\ prev.task_queue # <<>>
    /\ prev.current_video_start_time # None
    /\ current_state = "idle"

(***************************************************************************)
(* The calls of get_next_video that can follow a state when nothing else   *)
(* intervenes: the timer loop makes the call at the first tick at which    *)
(* should_change_video holds, the instant the clip expires or later.       *)
(***************************************************************************)
DueTimes(e, t) ==
    LET expiry == e.current_video_start_time + e.current_video_duration
        due == IF e.current_video_start_time = None
                  \/ e.current_video_duration = None
                  \/ expiry <= t
               THEN t
               ELSE expiry
    IN  {due, due + 1}

\* every such call returns an idle video and leaves the mode idle
BackToIdle(e, t) ==
    \A u \in DueTimes(e, t) :
        /\ should_change_video(e, u)
        /\ \A o \in get_next_video(e, u) :
              /\ o.eng.current_state = "idle"
              /\ o.ret.type = "idle"
              /\ idle_videos # <<>>
                     => /\ o.ret.video \in Locations(idle_videos)
                        /\ o.eng.current_video_start_time = u
                        /\ o.eng.current_video_duration = o.ret.duration

(***************************************************************************)
(* C11.  create_personality_response for a label with an expression: what  *)
(* the claim says of the call itself.                                      *)
(***************************************************************************)
ResponseRecorded ==
    /\ lastOp.op = "create_personality_response"
    /\ expression_videos(lastOp.emotion) # <<>>

EmotionClipStarted ==
    /\ current_state = "emotion"
    /\ ret.video \in Locations(expression_videos(lastOp.emotion))
    /\ TimingStarted

\* C11 as claimed: in any mode the call sets the mode emotion and starts
\* timing on a video of the label, and the first get_next_video after the
\* clip's duration returns an idle video and leaves the mode idle.  The call
\* leaves is_sleeping and sleep_pending as they are, and get_next_video
\* looks at both before it looks at the mode.
C11_ResponseThenIdle ==
    ResponseRecorded
        => /\ EmotionClipStarted
           /\ BackToIdle(Eng, now)

(***************************************************************************)
(* C12: wake_up on an engine that does not sleep returns nothing, sends    *)
(* nothing and leaves every field as it was, sleep_pending included.       *)
(***************************************************************************)
C12_WakeUpAwakeIsNoop ==
    (lastOp.op = "wake_up" /\ ~prev.is_sleeping)
        => /\ ret = NoneResponse
           /\ Eng = prev
           /\ broadcast = NoBroadcast

\* wake_up has just been called with a sleep pending, which is still pending
C12_Witness ==
    /\ lastOp.op = "wake_up"
    /\ ~prev.is_sleeping
    /\ prev.sleep_pending
    /\ sleep_pending

(***************************************************************************)
(* C13: wake_up on a sleeping engine returns the wake response, which the  *)
(* route sends, clears both sleep flags, sets the mode emotion and starts  *)
(* timing on a wake video when the configuration has one; the first        *)
(* get_next_video after that clip returns an idle video and leaves the     *)
(* mode idle.                                                              *)
(***************************************************************************)
C13_WakeUpThenIdle ==
    (lastOp.op = "wake_up" /\ prev.is_sleeping)
        => /\ ret.type = "wake"
           /\ broadcast = Broadcast("video_change", ret)
           /\ ~is_sleeping
           /\ ~sleep_pending
           /\ current_state = "emotion"
           /\ expression_videos("wake") # <<>>
                  => /\ ret.video \in Locations(expression_videos("wake"))
                     /\ TimingStarted
           /\ BackToIdle(Eng, now)

\* a sleeping engine has just been woken with the wake video
C13_Witness ==
    /\ lastOp.op = "wake_up"
    /\ prev.is_sleeping
    /\ prev.current_state = "sleep"
    /\ ret.video = "wake-1"
    /\ current_state = "emotion"

(***************************************************************************)
(* C14: go_to_sleep on an engine that sleeps already returns nothing,      *)
(* sends nothing and leaves every field as it was.                         *)
(***************************************************************************)
C14_GoToSleepAsleepIsNoop ==
    (lastOp.op = "go_to_sleep" /\ prev.is_sleeping)
        => /\ ret = NoneResponse
           /\ Eng = prev
           /\ broadcast = NoBroadcast

\* go_to_sleep has just been called on an engine that was put to sleep
\* and then given a task
C14_Witness ==
    /\ lastOp.op = "go_to_sleep"
    /\ prev.is_sleeping
    /\ prev.current_state = "task"
    /\ is_sleeping

(***************************************************************************)
(* C15.                                                                    *)
(***************************************************************************)
\* C15 as claimed: go_to_sleep called again while sleep_pending is set
\* changes nothing and returns nothing, expired clip or not.
C15_RepeatedSleepIsNoop ==
    (lastOp.op = "go_to_sleep" /\ prev.sleep_pending)
        => /\ ret = NoneResponse
           /\ Eng = prev

\* C15 as amended: go_to_sleep called again while sleep_pending is set
\* changes nothing as long as the mode is task or emotion and the clip has
\* not expired; otherwise the call itself puts the engine to sleep and
\* returns the sleep response.
C15_RepeatedSleepIsNoopUntilExpiry ==
    (lastOp.op = "go_to_sleep" /\ prev.sleep_pending)
        => IF prev.current_state \in {"task", "emotion"}
              /\ ~should_change_video(prev, now)
           THEN /\ ret = NoneResponse
                /\ Eng = prev
           ELSE /\ ret.type = "sleep"
                /\ is_sleeping
                /\ ~sleep_pending
                /\ current_state = "sleep"

\* a second go_to_sleep, made after the clip expired and before the timer
\* loop ran, has just put the engine to sleep
C15_Witness ==
    /\ lastOp.op = "go_to_sleep"
    /\ prev.sleep_pending
    /\ prev.current_state \in {"task", "emotion"}
    /\ should_change_video(prev, now)
    /\ is_sleeping

(***************************************************************************)
(* C16: an iteration of the timer loop sends a change event exactly when   *)
(* its get_next_video started a clip.  Stated as claimed; the loop sends   *)
(* nothing when the video returned has the path of the last one the loop   *)
(* sent, although the engine started the clip anew and although the routes *)
(* may have sent other videos since.                                       *)
(***************************************************************************)
C16_EveryClipChangePublished ==
    lastOp.op = "video_timer_loop"
        => ((NextClipCalled /\ ret.video # NoneStr) <=> broadcast # NoBroadcast)

(***************************************************************************)
(* C17.                                                                    *)
(***************************************************************************)
\* the last step was the request op made while a clip was in flight
RequestInFlight(op) ==
    lastOp.op = op /\ ~should_change_video(prev, now)

\* the clip in flight before the step is in flight after it, untouched
ClipKept ==
    /\ TimingUnchanged
    /\ ret.video = NoneStr
    /\ ~should_change_video(Eng, now)

PublishFailed ==
    /\ lastOp.op = "video_timer_loop"
    /\ broadcast.type \in {"dropped", "raised"}

C19_LoopSurvivesPublishFailure ==
    PublishFailed
        => /\ video_timer_task = "running"
           /\ ENABLED VideoTimerLoop

\* an exception has just reached the loop from the sink
C19_Witness ==
    /\ PublishFailed
    /\ broadcast.type = "raised"
    /\ broadcast.data.video # NoneStr
    /\ video_timer_task = "running"

(***************************************************************************)
(* C20: a request with a label that has no expression is served with the   *)
(* default label's expression.  Stated as claimed, for                     *)
(* create_personality_response and for a label taken from the task queue;  *)
(* get_expression_data returns None for such a label and both methods then *)
(* select nothing and leave mode and timing alone.                         *)
(***************************************************************************)
DefaultClipStarted ==
    /\ ret.video \in Locations(expression_videos(default_emotion))
    /\ TimingStarted

C20_UnknownLabelFallsBack ==
    /\ (/\ lastOp.op = "create_personality_response"
        /\ lastOp.emotion \notin DOMAIN expressions)
           => /\ DefaultClipStarted
              /\ current_state = "emotion"
    /\ (/\ NextClipCalled
        /\ prev.current_state = "task"
        /\ ~prev.is_sleeping
        /\ ~prev.sleep_pending
        /\ prev.task_queue # <<>>
        /\ Head(prev.task_queue) \notin DOMAIN expressions)
           => /\ DefaultClipStarted
              /\ current_state = "task"

(***************************************************************************)
(* C21.  A catalog that fails validation.  _initialize_ui constructs the   *)
(* engine, calls validate_expressions_config, and constructs the server,   *)
(* whose constructor starts the video timer.                               *)
(***************************************************************************)
\* the engine has been started or called since its construction
EngineUsed == lastOp.op # "init"

\* C21 as claimed: an engine whose catalog fails validation is never
\* started or ticked; startup stops at the load.
C21_InvalidCatalogBlocksStartup ==
    ~validate_expressions_config => ~EngineUsed

(***************************************************************************)
(* C22, C23.  _weighted_random_selection, checked on every list of         *)
(* VideoLists under SelectSpec.                                            *)
(***************************************************************************)
Selected == lastOp.op = "get_random_idle_video"

Members(videos) == {videos[i] : i \in 1..Len(videos)}

PositiveWeights(videos) == \A i \in 1..Len(videos) : videos[i].weight > 0

\* the draws that select the i-th video of the list
DrawsOf(videos, i) ==
    {random_value \in 1..total_weight(videos) :
        weighted_walk(videos, random_value) = videos[i]}

\* the first position of the list whose cumulative weight is >= r
FirstReaching(videos, r) ==
    CHOOSE i \in 1..Len(videos) :
        /\ cumulative_weight(videos, i) >= r
        /\ \A j \in 1..(i - 1) : cumulative_weight(videos, j) < r

\* C22: for a non-empty list with positive weights every draw r of
\* 1..total_weight selects the first video whose cumulative weight is >= r,
\* the number of draws that select the i-th video is its weight, and what
\* the selection returned is the video of one of the draws.
C22_SelectionProportionalToWeight ==
    (idle_videos # <<>> /\ PositiveWeights(idle_videos))
        => /\ \A r \in 1..total_weight(idle_videos) :
                  weighted_walk(idle_videos, r)
                      = idle_videos[FirstReaching(idle_videos, r)]
           /\ \A i \in 1..Len(idle_videos) :
                  Cardinality(DrawsOf(idle_videos, i)) = idle_videos[i].weight
           /\ Selected
                  => \E r \in 1..total_weight(idle_videos) :
                        ret = weighted_walk(idle_videos, r)

\* the second of several videos of unequal positive weights was selected
C22_Witness ==
    /\ Selected
    /\ Len(idle_videos) = MaxLen
    /\ PositiveWeights(idle_videos)
    /\ idle_videos[1].weight # idle_videos[2].weight
    /\ ret = idle_videos[2]

\* C23: for every non-empty list, whatever its weights, the selection has a
\* result and every result is a member of the list; when the weights sum
\* to 0 or less, every member is a possible result.
C23_SelectionNeverFails ==
    idle_videos # <<>>
        => /\ get_random_idle_video # {}
           /\ get_random_idle_video \subseteq Members(idle_videos)
           /\ Selected => ret \in Members(idle_videos)
           /\ total_weight(idle_videos) <= 0
                  => get_random_idle_video = Members(idle_videos)

\* the last of several videos whose weights sum to less than 0 was selected
C23_Witness ==
    /\ Selected
    /\ Len(idle_videos) > 1
    /\ total_weight(idle_videos) < 0
    /\ ret = idle_videos[Len(idle_videos)]

(***************************************************************************)
(* C24.  The engine as __init__ leaves it, and get_next_video on it.  The  *)
(* server's first call is create_idle_response; the timer loop meets an    *)
(* engine with the constructor's field values again after complete_task.   *)
(***************************************************************************)
Fresh(e) == e = InitEng

\* C24: a freshly created engine is idle with no timed video, an empty
\* queue and both sleep flags false; on such an engine should_change_video
\* holds and get_next_video returns an idle response and leaves the mode
\* idle, with a video of the idle list, timed from the call, when the list
\* has one.
C24_FreshEngineStartsIdle ==
    /\ lastOp.op = "init" => Fresh(Eng)
    /\ Fresh(Eng)
          => /\ should_change_video(Eng, now)
             /\ \A o \in get_next_video(Eng, now) :
                   /\ o.eng.current_state = "idle"
                   /\ o.ret.type = "idle"
                   /\ idle_videos # <<>>
                          => /\ o.ret.video \in Locations(idle_videos)
                             /\ o.eng.current_video_start_time = now
                             /\ o.eng.current_video_duration = o.ret.duration
    /\ (NextClipCalled /\ Fresh(prev))
          => /\ current_state = "idle"
             /\ ret.type = "idle"
             /\ idle_videos # <<>>
                    => ret.video \in Locations(idle_videos) /\ TimingStarted

\* the timer loop called get_next_video on an engine with the constructor's
\* field values and got the second idle video
C24_Witness ==
    /\ NextClipCalled
    /\ Fresh(prev)
    /\ Len(idle_videos) > 1
    /\ ret.video = idle_videos[2].location
    /\ current_state = "idle"

(***************************************************************************)
(* C26.  get_next_video on an engine in sleep mode.                        *)
(***************************************************************************)
\* C26: while current_state is "sleep", get_next_video at the present and
\* at every later reading of the clock returns None and leaves every field
\* of the engine as it is, and a timer iteration that finds the engine so
\* changes nothing and sends nothing.
C26_SleepSuppressesAdvancement ==
    /\ current_state = "sleep"
          => \A u \in now..(MaxTime + 1) :
                get_next_video(Eng, u) = {Outcome(Eng, NoneResponse)}
    /\ (NextClipCalled /\ prev.current_state = "sleep")
          => /\ ret = NoneResponse
             /\ Eng = prev
             /\ broadcast = NoBroadcast

\* a timer iteration called get_next_video after the sleep video had been
\* over for some time
C26_Witness ==
    /\ NextClipCalled
    /\ prev.current_state = "sleep"
    /\ prev.current_video_start_time # None
    /\ now > prev.current_video_start_time + prev.current_video_duration
    /\ ret = NoneResponse

(***************************************************************************)
(* C27.  The task queue outside task mode.  create_personality_response    *)
(* and go_to_sleep assign current_state and leave task_queue alone, and    *)
(* get_next_video's emotion branch does not clear it either.               *)
(***************************************************************************)
\* C27 as claimed: task_queue is non-empty only while current_state is
\* "task".
C27_QueueOnlyInTaskMode ==
    task_queue # <<>> => current_state = "task"

(***************************************************************************)
(* C29.  should_change_video.                                              *)
(***************************************************************************)
ActiveClip(e) ==
    e.current_video_start_time # None /\ e.current_video_duration # None

\* C29: at every reading t of the clock should_change_video is true exactly
\* when no video is timed or t - start >= duration, and a timer iteration
\* in which it is false has changed nothing of the engine.
C29_ShouldChangeVideoPure ==
    /\ \A t \in 0..(MaxTime + 1) :
          should_change_video(Eng, t)
              <=> \/ ~ActiveClip(Eng)
                  \/ t - current_video_start_time >= current_video_duration
    /\ (lastOp.op = "video_timer_loop" /\ ~should_change_video(prev, now))
          => Eng = prev /\ ret = NoneResponse

\* a timer iteration found the video one unit short of its expiry
C29_Witness ==
    /\ lastOp.op = "video_timer_loop"
    /\ ActiveClip(prev)
    /\ ~should_change_video(prev, now)
    /\ should_change_video(Eng, now + 1)
    /\ now + 1 = current_video_start_time + current_video_duration

(***************************************************************************)
(* C30.  Sleep mode and is_sleeping.                                       *)
(***************************************************************************)
\* C30: in every reachable state current_state = "sleep" implies
\* is_sleeping; a step that clears is_sleeping is a wake_up and leaves the
\* engine out of sleep mode.
C30_SleepModeImpliesSleeping ==
    /\ current_state = "sleep" => is_sleeping
    /\ (prev.is_sleeping /\ ~is_sleeping)
          => lastOp.op = "wake_up" /\ current_state # "sleep"

\* the engine has just been woken from sleep mode
C30_Witness ==
    /\ lastOp.op = "wake_up"
    /\ prev.current_state = "sleep"
    /\ prev.is_sleeping
    /\ ~is_sleeping

(***************************************************************************)
(* C28.  _determine_emotion_by_rules, checked for every catalog, fallback  *)
(* list, mapping and context of ResolveSpec.                               *)
(***************************************************************************)
Resolved == lastOp.op = "determine_emotion_by_rules"

Labelled(labels) == {labels[i] : i \in 1..Len(labels)}

\* the labels the mapping gives for the context's signals
Matched(context) ==
    UNION {Labelled(signal_candidates(context, key)) :
              key \in {"error_severity", "interaction_type",
                       "user_relationship"}}

\* what the claim lets the resolver return for the context
FallbackChain(context) ==
    IF Matched(context) \cap DOMAIN expressions # {}
    THEN Matched(context) \cap DOMAIN expressions
    ELSE IF Labelled(fallback_emotions) \cap DOMAIN expressions # {}
         THEN Labelled(fallback_emotions) \cap DOMAIN expressions
         ELSE {default_emotion}

\* C28: for every context the resolver has a result; its results are the
\* matched candidates that the catalog has, when there are any, else the
\* fallback labels that the catalog has, when there are any, else the
\* default label; and what it returned is a catalog label or the default.
C28_ResolverFallbackChain ==
    /\ \A context \in Contexts :
          /\ determine_emotion_by_rules(context) # {}
          /\ determine_emotion_by_rules(context) = FallbackChain(context)
    /\ Resolved
          => /\ ret \in FallbackChain(lastOp.context)
             /\ ret \in DOMAIN expressions \cup {default_emotion}

\* the signals matched only a label the catalog lacks, and the resolver
\* returned a fallback label other than the default
C28_Witness ==
    /\ Resolved
    /\ Matched(lastOp.context) # {}
    /\ Matched(lastOp.context) \cap DOMAIN expressions = {}
    /\ ret \in Labelled(fallback_emotions)
    /\ ret # default_emotion

(***************************************************************************)
(* C25.  A pending sleep under LiveSpec.  Every create_personality_response *)
(* that finds an expression starts a new video and its timing, also while  *)
(* a sleep is pending, and the sleep then waits for that video.            *)
(***************************************************************************)
\* a step clears sleep_pending only by putting the engine to sleep
PendingClearedBySleep ==
    [][(sleep_pending /\ ~sleep_pending') => is_sleeping']_vars

\* C25 as claimed: whenever a sleep is pending the engine eventually
\* sleeps, and sleep_pending is cleared only by entering sleep.
C25_PendingSleepTakesEffect ==
    /\ sleep_pending ~> is_sleeping
    /\ PendingClearedBySleep

\* C25 as amended: if from some time on no response starts a new video,
\* then whenever a sleep is pending the engine eventually sleeps; and
\* sleep_pending is cleared only by entering sleep.
C25_PendingSleepUnlessPreempted ==
    /\ <>[]~ResponseRecorded => (sleep_pending ~> is_sleeping)
    /\ PendingClearedBySleep

\* a sleep deferred behind an emotion video took effect at a tick after
\* the clock had passed MaxTime
C25_Witness ==
    /\ NextClipCalled
    /\ prev.sleep_pending
    /\ prev.current_state = "emotion"
    /\ prev.current_video_start_time < now - prev.current_video_duration
    /\ now = MaxTime
    /\ is_sleeping

====
